---- MODULE Spec2Model ----
(***************************************************************************)
(* Model of receive_request.py: the /receive_request endpoint, the chain   *)
(* driver process_request, the oracle client call_aipipe_for_answer and    *)
(* the pure page helpers.                                                  *)
(*                                                                         *)
(* Text is modelled by its parts.  A URL or path is a sequence of tokens:  *)
(* an absolute URL starts with an origin token ("https://h"), a            *)
(* root-relative path starts with a token that begins with "/".  A page    *)
(* body is a record of what the parsers and regular expressions of the     *)
(* code find in it.                                                        *)
(***************************************************************************)
EXTENDS Integers, Sequences, FiniteSets, TLC

VARIABLES
    pc,               \* position of the request / background task
    http_status,      \* status of the last /receive_request response (0: none yet)
    data,             \* the accepted job: [url, email, secret]
    now,              \* asyncio.get_event_loop().time(), in seconds
    overall_deadline, \* process_request: overall_deadline
    url,              \* process_request: url
    last_result,      \* process_request: last_result
    html,             \* process_request: html (body of the page just fetched)
    page_to_parse,    \* process_request: page_to_parse
    question_text,    \* process_request: question_text
    submit_url,       \* process_request: submit_url
    attempt,          \* call_aipipe_for_answer: attempt
    iter,             \* number of the iteration of the while loop
    lastCall,         \* the most recent network call of the session
    lastGet,          \* the URL of the most recent GET
    prev_url,         \* the value url had before its last assignment
    oracle_reqs,      \* requests issued by the current call_aipipe_for_answer
    oracle_result,    \* how the last call_aipipe_for_answer ended
    post_json,        \* the submission response last received (as parsed)
    reason,           \* why the loop was left (the message process_request prints)
    outcome,          \* how process_request ended: "returned" or "raised"
    last_body,        \* the body of the last request to /receive_request
    sess              \* the background tasks of the concurrent specification

vars == <<pc, http_status, data, now, overall_deadline, url, last_result, html,
          page_to_parse, question_text, submit_url, attempt, iter, lastCall,
          lastGet, prev_url, oracle_reqs, oracle_result, post_json, reason, outcome,
          last_body, sess>>

----------------------------------------------------------------------------
(* Bounds and program constants *)

MaxIter == 3                \* pages a server chains before it stops sending a next url

DeadlineSecs == 150         \* overall_deadline = time() + 150
ClientTimeout == 60         \* httpx.AsyncClient(timeout=60.0), post(..., timeout=60.0)
OracleTimeout == 30         \* call_aipipe_for_answer(..., timeout=30.0)
Retries == 2                \* call_aipipe_for_answer(..., retries=2)

SECRET_KEY == "s3cret"

----------------------------------------------------------------------------
(* URLs and paths as token sequences *)

Origins == {"https://h", "http://h"}
NotAStr == <<"#int">>       \* a JSON value that is truthy and not a string
EmptyStr == <<>>            \* "" (also stands for a missing or null field)

U1 == <<"https://h", "/q1">>
U2 == <<"https://h", "/q2">>
SubmitAbs == <<"https://h", "/submit">>

\* str.startswith(("http://", "https://"))
StartsWithHttp(u) == Len(u) > 0 /\ Head(u) \in Origins

\* str.startswith("/")
StartsWithSlash(u) == Len(u) > 0 /\ Head(u) \in {"/submit", "/next", "/a", "/b", "/q1", "/q2"}

\* the token begins with "/submit" (what the regular expressions look for)
IsSubmitTok(t) == t \in {"/submit"}

urljoin_keep_path(base_url, ref) == base_url \o ref
\* urllib.parse.urljoin(base_url, ref) for the references the code passes:
\* an absolute reference replaces the base, a root-relative one keeps only
\* the base's scheme and host.
urljoin(base_url, ref) ==
    IF StartsWithHttp(ref) THEN ref
    ELSE IF StartsWithSlash(ref) THEN <<Head(base_url)>> \o ref
    ELSE SubSeq(base_url, 1, Len(base_url) - 1) \o ref

----------------------------------------------------------------------------
(* Page bodies *)

Absent == "<absent>"        \* the element (or the atob call) is not in the document
NoItems == <<>>

\* A body, as the code's parsers see it:
\*   atob    the quoted argument of the first atob("...") call, or Absent
\*   result  text of the first element with id="result", or Absent
\*   pre     text of the first <pre> element, or Absent
\*   body    text of <body>, or Absent
\*   raw     the whole text, stripped
\*   items   the URL-like pieces of the text, in order of appearance:
\*             kind "abs"  : an absolute URL literal
\*             kind "json" : a "url": "<val>" field
\*             kind "frag" : a path fragment
Doc(atob, result, pre, body, raw, items) ==
    [atob |-> atob, result |-> result, pre |-> pre, body |-> body, raw |-> raw,
     items |-> items]

Item(kind, val) == [kind |-> kind, val |-> val]

EmptyDoc == Doc(Absent, Absent, Absent, Absent, "", NoItems)

\* <pre id="result">2+2=?</pre> ... "url": "/submit?x=1"
P_question == Doc(Absent, "2+2=?", "2+2=?", Absent, "<pre id=result>2+2=?</pre>...",
                  <<Item("json", <<"/submit", "?x=1">>)>>)
\* <body><form action="https://h/submit"></form></body> : no question text
P_entry == Doc(Absent, Absent, Absent, "", "<body><form ...></form></body>",
               <<Item("abs", SubmitAbs)>>)
\* <body>What is 1+1?</body> : nothing to submit to
P_nosubmit == Doc(Absent, Absent, Absent, "What is 1+1?", "<body>What is 1+1?</body>",
                  NoItems)
\* <div id="result"></div><script>...atob("PHByZSBpZD0i...")</script>
P_obf == Doc("PHByZSBpZD0i", "", Absent, Absent, "<div id=result></div><script>...",
             NoItems)
\* atob("a") cannot be decoded; the page itself says: Say hi, POST to /submit
P_badb64 == Doc("a", Absent, "Say hi", Absent, "<pre>Say hi</pre>atob('a') /submit",
                <<Item("frag", <<"/submit">>)>>)
\* atob("!!!!") decodes to no text at all
P_emptyb64 == Doc("!!!!", Absent, Absent, "Name a colour", "<body>Name a colour...",
                  <<Item("json", <<"next">>)>>)
\* "url": "https://h/q2" comes first, https://h/submit later
P_both == Doc(Absent, Absent, "", "Pick one", "<body><pre></pre>Pick one ...",
              <<Item("json", U2), Item("abs", SubmitAbs)>>)
\* an empty response body
P_blank == EmptyDoc

Pages == {P_question, P_entry, P_nosubmit, P_obf, P_badb64, P_emptyb64, P_both, P_blank}

\* what base64.b64decode(...).decode("utf-8", errors="replace") gives
NoDecode == [ok |-> FALSE, doc |-> EmptyDoc]
Decoded(doc) == [ok |-> TRUE, doc |-> doc]

extract_base64_from_html(h) == h.atob

decode_base64_to_html(b64) ==
    CASE b64 = "PHByZSBpZD0i" -> Decoded(P_question)
      [] b64 = "!!!!"         -> Decoded(EmptyDoc)
      [] OTHER                -> NoDecode     \* binascii.Error: return None

EffectivePage_any_decoded(h) ==
    LET b64 == extract_base64_from_html(h)
        decoded_html == IF b64 # Absent THEN decode_base64_to_html(b64) ELSE NoDecode
    IN  IF decoded_html.ok THEN decoded_html.doc ELSE h

\* lines 243-250: page_to_parse = decoded_html if decoded_html else html
EffectivePage(h) ==
    LET b64 == extract_base64_from_html(h)
        decoded_html == IF b64 # Absent THEN decode_base64_to_html(b64) ELSE NoDecode
    IN  IF decoded_html.ok /\ decoded_html.doc # EmptyDoc THEN decoded_html.doc ELSE h

extract_question_text_first_existing(decoded_html) ==
    IF decoded_html.result # Absent THEN decoded_html.result
    ELSE IF decoded_html.pre # Absent THEN decoded_html.pre
    ELSE IF decoded_html.body # Absent THEN decoded_html.body
    ELSE decoded_html.raw

extract_question_text(decoded_html) ==
    IF decoded_html.result # Absent /\ decoded_html.result # "" THEN decoded_html.result
    ELSE IF decoded_html.pre # Absent /\ decoded_html.pre # "" THEN decoded_html.pre
    ELSE IF decoded_html.body # Absent THEN decoded_html.body
    ELSE decoded_html.raw

\* the least index of a set of match positions, 0 if there is none (re.search
\* returns the leftmost match)
First(hits) == IF hits = {} THEN 0 ELSE CHOOSE i \in hits : \A j \in hits : i <= j

SubmitIdx(val, from) == First({i \in from..Len(val) : IsSubmitTok(val[i])})

\* https?://[^\s'"<>]+/submit[^\s'"<>]*
MatchAbsSubmit(it) == StartsWithHttp(it.val) /\ SubmitIdx(it.val, 2) # 0
\* "url"\s*:\s*"([^"]+)"
MatchJsonUrl(it) == it.kind = "json"
\* /submit[^\s'"<>]*
MatchSubmitFrag(it) == SubmitIdx(it.val, 1) # 0

None == <<>>                \* Optional[str]: no URL

find_submit_url_in_html_field_first(h, base_url) ==
    LET m  == First({i \in DOMAIN h.items : MatchAbsSubmit(h.items[i])})
        m2 == First({i \in DOMAIN h.items : MatchJsonUrl(h.items[i])})
        m3 == First({i \in DOMAIN h.items : MatchSubmitFrag(h.items[i])})
    IN  IF m2 # 0 THEN
            LET url_candidate == h.items[m2].val
            IN  IF StartsWithHttp(url_candidate) THEN url_candidate
                ELSE IF StartsWithSlash(url_candidate) THEN urljoin(base_url, url_candidate)
                ELSE urljoin(base_url, <<"/" \o Head(url_candidate)>> \o Tail(url_candidate))
        ELSE IF m # 0 THEN h.items[m].val
        ELSE IF m3 # 0 THEN
            LET v == h.items[m3].val
            IN  urljoin(base_url, SubSeq(v, SubmitIdx(v, 1), Len(v)))
        ELSE None

find_submit_url_in_html_strict(h, base_url) ==
    LET m  == First({i \in DOMAIN h.items : MatchAbsSubmit(h.items[i])})
        m2 == First({i \in DOMAIN h.items :
                        /\ MatchJsonUrl(h.items[i])
                        /\ \/ StartsWithHttp(h.items[i].val)
                           \/ StartsWithSlash(h.items[i].val)})
        m3 == First({i \in DOMAIN h.items : MatchSubmitFrag(h.items[i])})
    IN  IF m # 0 THEN h.items[m].val
        ELSE IF m2 # 0 THEN urljoin(base_url, h.items[m2].val)
        ELSE IF m3 # 0 THEN
            LET v == h.items[m3].val
            IN  urljoin(base_url, SubSeq(v, SubmitIdx(v, 1), Len(v)))
        ELSE None

find_submit_url_in_html(h, base_url) ==
    LET m  == First({i \in DOMAIN h.items : MatchAbsSubmit(h.items[i])})
        m2 == First({i \in DOMAIN h.items : MatchJsonUrl(h.items[i])})
        m3 == First({i \in DOMAIN h.items : MatchSubmitFrag(h.items[i])})
    IN  IF m # 0 THEN h.items[m].val
        ELSE IF m2 # 0 THEN
            LET url_candidate == h.items[m2].val
            IN  IF StartsWithHttp(url_candidate) THEN url_candidate
                ELSE IF StartsWithSlash(url_candidate) THEN urljoin(base_url, url_candidate)
                ELSE urljoin(base_url, <<"/" \o Head(url_candidate)>> \o Tail(url_candidate))
        ELSE IF m3 # 0 THEN
            LET v == h.items[m3].val
            IN  urljoin(base_url, SubSeq(v, SubmitIdx(v, 1), Len(v)))
        ELSE None

----------------------------------------------------------------------------
(* The answer oracle: call_aipipe_for_answer *)

\* A parsed JSON value: its Python type t, its text v and, for an object,
\* whether it has the key "answer" and that key's value (at, av).
J(t, v) == [t |-> t, v |-> v, has |-> FALSE, at |-> "", av |-> ""]
JObj(v, has, at, av) == [t |-> "dict", v |-> v, has |-> has, at |-> at, av |-> av]
JNone == J("None", "")

\* An answer value: Python type and text
Val(t, v) == [t |-> t, v |-> v]
NoVal == Val("", "")

NoMatch == "<no match>"

\* message contents the oracle may send
T_fenced == "<fence>json {\"answer\": 42} <fence>"
T_obj    == "Sure: {\"answer\": 42}"
T_noans  == "{\"result\": 42}"
T_int    == " 42\n"
T_float  == "3.5"
T_bool   == "true"
T_qint   == "\"42\""
T_True   == "True"
T_zint   == "007"
T_prose  == "The answer is forty-two."

OracleTexts == {T_fenced, T_obj, T_noans, T_int, T_float, T_bool, T_qint, T_True,
                T_zint, T_prose}

\* the response to one attempt: the POST raises (transport error or error status),
\* the JSON has no message content, or it carries a content
OracleResponses ==
    {[kind |-> "error", content |-> ""], [kind |-> "no_content", content |-> ""]}
    \cup {[kind |-> "content", content |-> c] : c \in OracleTexts}

\* str.strip()
Strip(s) == CASE s = " 42\n" -> "42" [] s = "Quiz complete!\n" -> "Quiz complete!" [] OTHER -> s

\* group(1) of the search for a fenced {...} block (<fence> stands for the three
\* backquotes of a code fence)
ReFence(text) ==
    CASE text = "<fence>json {\"answer\": 42} <fence>" -> "{\"answer\": 42}"
      [] OTHER -> NoMatch

\* group(1) of the search for the first {...} block
ReBrace(text) ==
    CASE text = "<fence>json {\"answer\": 42} <fence>" -> "{\"answer\": 42}"
      [] text = "Sure: {\"answer\": 42}"       -> "{\"answer\": 42}"
      [] text = "{\"result\": 42}"             -> "{\"result\": 42}"
      [] OTHER -> NoMatch

\* json.loads(s), None standing for any exception (safe_json_load)
safe_json_load(s) ==
    CASE s = "{\"answer\": 42}" -> JObj(s, TRUE, "int", "42")
      [] s = "{\"result\": 42}" -> JObj(s, FALSE, "", "")
      [] s = "42"               -> J("int", "42")
      [] s = "3.5"              -> J("float", "3.5")
      [] s = "true"             -> J("bool", "true")
      [] s = "\"42\""           -> J("str", "42")
      [] OTHER                  -> JNone

\* str.strip of double quotes, then of single quotes
StripQuotes(s) == CASE s = "\"42\"" -> "42" [] OTHER -> s

\* re.fullmatch of an integer literal, of a decimal literal
IsIntText(s) == s \in {"42", "007"}
IsFloatText(s) == s \in {"3.5"}

\* str.lower()
Lower(s) == CASE s = "True" -> "true" [] OTHER -> s

\* int(s), float(s): the text of the number
IntOf(s) == CASE s = "007" -> "7" [] OTHER -> s

\* the test parsed-does-not-contain-answer: a key test on a dict, a substring test on a
\* str, and a TypeError on an int, a float or a bool
AnswerNotIn(parsed) ==
    CASE parsed.t = "dict" -> IF parsed.has THEN "False" ELSE "True"
      [] parsed.t = "str"  -> "True"
      [] OTHER             -> "TypeError"

Returned(value) == [ok |-> TRUE, value |-> value, exc |-> ""]
Raised(exc) == [ok |-> FALSE, value |-> NoVal, exc |-> exc]

\* lines 91-118: what one attempt makes of the message content
ParseContent(content) ==
    LET text == Strip(content)
        m == ReFence(text)
        m2 == ReBrace(text)
        json_text == IF m # NoMatch THEN m ELSE IF m2 # NoMatch THEN m2 ELSE text
        parsed == safe_json_load(json_text)
        stripped == StripQuotes(Strip(text))
    IN  IF parsed = JNone \/ AnswerNotIn(parsed) = "True" THEN
            IF IsIntText(stripped) THEN Returned(Val("int", IntOf(stripped)))
            ELSE IF IsFloatText(stripped) THEN Returned(Val("float", stripped))
            ELSE IF Lower(stripped) \in {"true", "false"}
                 THEN Returned(Val("bool", Lower(stripped)))
            ELSE Raised("ValueError")
        ELSE IF AnswerNotIn(parsed) = "TypeError" THEN Raised("TypeError")
        ELSE Returned(Val(parsed.at, parsed.av))

\* lines 76-118: the body of the try of one attempt
Attempt(resp) ==
    CASE resp.kind = "error"      -> Raised("HTTPError")
      [] resp.kind = "no_content" -> Raised("ValueError")
      [] OTHER                    -> ParseContent(resp.content)

----------------------------------------------------------------------------
(* Submission responses and the session's records *)

\* A submission response: a body that is not JSON (kind "text"), or parsed
\* JSON of some shape; an object may carry a url field.
Resp(kind, text, shape, hasurl, u) ==
    [kind |-> kind, text |-> text, shape |-> shape, hasurl |-> hasurl, url |-> u]
NoResp == Resp("none", "", "", FALSE, EmptyStr)

R_text     == Resp("text", "Quiz complete!\n", "", FALSE, EmptyStr)
R_correct  == Resp("json", "{\"correct\": true}", "dict", FALSE, EmptyStr)
R_emptyurl == Resp("json", "{\"correct\": false, \"url\": \"\"}", "dict", TRUE, EmptyStr)
R_list     == Resp("json", "[\"https://h/q2\"]", "list", FALSE, EmptyStr)
R_null     == Resp("json", "null", "null", FALSE, EmptyStr)
R_next(u)  == Resp("json", "{\"correct\": true, \"url\": ...}", "dict", TRUE, u)

NextUrls == {U1, U2, <<"next">>}
SubmitResponses == {R_text, R_correct, R_emptyurl, R_list, R_null} \cup {R_next(u) : u \in NextUrls}

\* the response names a next page
HasTruthyUrl(resp) == resp.kind = "json" /\ resp.hasurl /\ resp.url # EmptyStr

\* last_result: None, the parsed JSON, or {"final": True, "raw_response": text}
LastResult(isset, final, raw_response, json) ==
    [isset |-> isset, final |-> final, raw_response |-> raw_response, json |-> json]
NoResult == LastResult(FALSE, FALSE, "", NoResp)
JsonResult_dropped(resp) == NoResult
\* line 295: last_result = post_json; the JSON value null parses to None, the
\* value last_result starts with
JsonResult(resp) == IF resp.shape = "null" THEN NoResult ELSE LastResult(TRUE, FALSE, "", resp)
FinalResult_dropped(text) == NoResult
\* line 291
FinalResult(text) == LastResult(TRUE, TRUE, text, NoResp)

Payload_start(email, secret, u, answer) ==
    [email |-> email, secret |-> secret, url |-> data.url, answer |-> answer]
\* lines 272-277
Payload(email, secret, u, answer) ==
    [email |-> email, secret |-> secret, url |-> u, answer |-> answer]
NoPayload == Payload("", "", EmptyStr, NoVal)

\* a network call: its number in the session, kind GET, ORACLE or POST,
\* target, JSON payload, the iteration that issued it and its status
\* pending, ok or failed
NoCall == [n |-> 0, kind |-> "none", target |-> None, payload |-> NoPayload,
           iter |-> 0, status |-> "none"]
Call(kind, target, payload, i) ==
    [n |-> lastCall.n + 1, kind |-> kind, target |-> target, payload |-> payload,
     iter |-> i, status |-> "pending"]
Completed(status) == [lastCall EXCEPT !.status = status]

AIPIPE_URL == <<"https://aipipe.org", "/openrouter/v1/chat/completions">>

NoOracleResult == [resp |-> [kind |-> "none", content |-> ""], r |-> Raised("")]

----------------------------------------------------------------------------
(* The /receive_request endpoint *)

\* request bodies: not JSON at all, or an object whose fields may be missing
\* (a missing secret is Absent, a missing url or email is empty)
Secrets == {Absent, SECRET_KEY, "wrong"}
StartUrls == {EmptyStr, U1, <<"next">>, NotAStr}
Emails == {"", "a@x", "b@y"}
Body(json, isdict, secret, u, email) ==
    [json |-> json, isdict |-> isdict, secret |-> secret, url |-> u, email |-> email]
NotJson == Body(FALSE, FALSE, Absent, EmptyStr, "")
JsonList == Body(TRUE, FALSE, Absent, EmptyStr, "")     \* valid JSON, not an object
NoBody == Body(FALSE, FALSE, "", EmptyStr, "")          \* no request yet
Bodies ==
    {Body(TRUE, TRUE, sec, u, e) : sec \in Secrets, u \in StartUrls, e \in Emails}
    \cup {NotJson, JsonList}

NoData == [url |-> EmptyStr, email |-> "", secret |-> Absent]

\* lines 325-338: the status of the response
Gate_no_secret_check(body) ==
    IF ~body.json THEN 400
    ELSE IF ~body.isdict THEN 500
    ELSE IF body.url = EmptyStr \/ body.email = "" THEN 400
    ELSE 200

\* lines 324-340: the status the endpoint answers with
Gate(body) ==
    IF ~body.json THEN 400
    ELSE IF ~body.isdict THEN 500     \* data.get raises AttributeError: no handler
    ELSE IF body.secret = Absent THEN 400
    ELSE IF body.secret # SECRET_KEY THEN 403
    ELSE IF body.url = EmptyStr \/ body.email = "" THEN 400
    ELSE 200

jobVars == <<overall_deadline, url, last_result, iter, prev_url, reason, outcome>>
pageVars == <<html, page_to_parse, question_text, submit_url>>
oracleVars == <<attempt, oracle_reqs, oracle_result>>
netVars == <<lastCall, lastGet, post_json>>

receive_request(body) ==
    /\ pc = "idle"
    /\ last_body' = body
    /\ http_status' = Gate(body)
    /\ IF Gate(body) = 200
       THEN /\ data' = [url |-> body.url, email |-> body.email, secret |-> body.secret]
            /\ pc' = "accepted"          \* background_tasks.add_task(process_request, data)
       ELSE UNCHANGED <<data, pc>>
    /\ UNCHANGED <<now, jobVars, pageVars, oracleVars, netVars, sess>>

----------------------------------------------------------------------------
(* process_request *)

DeadlineExceeded_never(t, deadline) == FALSE
DeadlineExceeded_late(t, deadline) == t > deadline + ClientTimeout
\* line 233
DeadlineExceeded(t, deadline) == t > deadline
NoQuestion_tolerated(q) == FALSE
\* line 254: not question_text
NoQuestion(q) == q = ""
NoSubmitUrl_unchecked(s) == FALSE
\* line 260: not submit_url
NoSubmitUrl(s) == s = None
\* line 75: range(1, retries + 2)
AttemptRange(retries) == 1..(retries + 1)
ShouldSleep_lt(a, retries) == a < retries
\* line 123
ShouldSleep(a, retries) == a <= retries
NextUrl_unread(resp) == None
\* lines 299-301
NextUrl(resp) ==
    IF resp.shape = "dict" /\ resp.hasurl /\ resp.url # EmptyStr THEN resp.url ELSE None
IsCycle_never(next_url, u) == FALSE
\* line 307
IsCycle(next_url, u) == next_url = u

\* where the handlers of the loop lead: each is a break (lines 241, 269, 283)
OnGetFailed_retry == "loop"
OnGetFailed == "done"
OnOracleFailed == "done"
OnPostFailed == "done"
\* lines 316-318: except Exception ... return
OuterExcept == "returned"

\* the call durations the model tries: immediate, or as long as the timeout
GetDurations == {0, ClientTimeout}
OracleDurations == {0, OracleTimeout}
PostDurations == {0, ClientTimeout}

\* the longest one iteration can take: the GET, retries + 1 oracle attempts
\* with the sleeps between them, and the POST, each lasting its full timeout
IterationBudget ==
    ClientTimeout + (Retries + 1) * OracleTimeout + (Retries * (Retries + 1)) \div 2
    + ClientTimeout

\* leaving the loop (or staying in it, where a handler is not a break) with
\* message r; the function returns at line 314 once the loop is left
Leave(to, r) ==
    /\ pc' = to
    /\ reason' = r
    /\ outcome' = IF to = "done" THEN "returned" ELSE outcome

\* lines 216-229
Start ==
    /\ pc = "accepted"
    /\ IF data.url = NotAStr
       THEN \* start_url.startswith raises AttributeError, caught at line 316
            /\ pc' = "done" /\ reason' = "unexpected error" /\ outcome' = OuterExcept
            /\ UNCHANGED <<overall_deadline, url, last_result>>
       ELSE IF data.url = EmptyStr \/ ~StartsWithHttp(data.url)
       THEN /\ Leave("done", "invalid url")
            /\ UNCHANGED <<overall_deadline, url, last_result>>
       ELSE /\ overall_deadline' = now + DeadlineSecs
            /\ url' = data.url
            /\ last_result' = NoResult
            /\ pc' = "loop"
            /\ UNCHANGED <<reason, outcome>>
    /\ UNCHANGED <<http_status, data, now, iter, prev_url, pageVars, oracleVars, netVars>>
    /\ UNCHANGED <<last_body, sess>>

\* lines 232-238: the deadline check, then the GET is issued.  A url that
\* httpx cannot send (no http scheme) makes client.get raise at once.
IterBegin ==
    /\ pc = "loop"
    /\ iter' = iter + 1
    /\ IF DeadlineExceeded(now, overall_deadline)
       THEN /\ Leave("done", "deadline")
            /\ UNCHANGED <<lastCall, lastGet>>
       ELSE IF ~StartsWithHttp(url)
       THEN /\ Leave(OnGetFailed, "get failed")
            /\ UNCHANGED <<lastCall, lastGet>>
       ELSE /\ lastCall' = Call("GET", url, NoPayload, iter + 1)
            /\ lastGet' = url
            /\ pc' = "get"
            /\ UNCHANGED <<reason, outcome>>
    /\ UNCHANGED <<http_status, data, now, overall_deadline, url, last_result, prev_url,
                   pageVars, oracleVars, post_json>>
    /\ UNCHANGED <<last_body, sess>>

\* lines 238-266: the GET completes; decode, extract, resolve; the first
\* oracle request is issued
GetReturn(ok, page, d) ==
    /\ pc = "get"
    /\ now' = now + d
    /\ IF ~ok
       THEN /\ lastCall' = Completed("failed")
            /\ Leave(OnGetFailed, "get failed")
            /\ UNCHANGED <<pageVars, oracleVars>>
       ELSE LET ptp == EffectivePage(page)
                q == extract_question_text(ptp)
                s == find_submit_url_in_html(ptp, url)
            IN  /\ html' = page
                /\ page_to_parse' = ptp
                /\ question_text' = q
                /\ IF NoQuestion(q)
                   THEN /\ lastCall' = Completed("ok")
                        /\ Leave("done", "no question")
                        /\ UNCHANGED <<submit_url, oracleVars>>
                   ELSE /\ submit_url' = s
                        /\ IF NoSubmitUrl(s)
                           THEN /\ lastCall' = Completed("ok")
                                /\ Leave("done", "no submit")
                                /\ UNCHANGED oracleVars
                           ELSE /\ attempt' = 1
                                /\ oracle_reqs' = 1
                                /\ oracle_result' = NoOracleResult
                                /\ lastCall' = Call("ORACLE", AIPIPE_URL, NoPayload, iter)
                                /\ pc' = "llm"
                                /\ UNCHANGED <<reason, outcome>>
    /\ UNCHANGED <<http_status, data, overall_deadline, url, last_result, iter, prev_url,
                   lastGet, post_json>>
    /\ UNCHANGED <<last_body, sess>>

\* lines 77-126 and 266-280: one oracle attempt completes; on an answer the
\* POST is issued, on a failure the client sleeps or gives up
OracleReturn(resp, d) ==
    /\ pc = "llm"
    /\ now' = now + d
    /\ LET r == Attempt(resp)
       IN  /\ oracle_result' = [resp |-> resp, r |-> r]
           /\ IF r.ok
              THEN /\ lastCall' = Call("POST", submit_url,
                                       Payload(data.email, data.secret, url, r.value), iter)
                   /\ pc' = "post"
                   /\ UNCHANGED <<reason, outcome>>
              ELSE /\ lastCall' = Completed("failed")
                   /\ IF ShouldSleep(attempt, Retries)
                      THEN pc' = "sleep" /\ UNCHANGED <<reason, outcome>>
                      ELSE Leave(OnOracleFailed, "llm failed")
    /\ UNCHANGED <<http_status, data, overall_deadline, url, last_result, iter, prev_url,
                   pageVars, attempt, oracle_reqs, lastGet, post_json>>
    /\ UNCHANGED <<last_body, sess>>

\* lines 124 and 75-77: asyncio.sleep(1.0 * attempt), then the next attempt of
\* the range, if any, issues its request
Backoff ==
    /\ pc = "sleep"
    /\ now' = now + attempt
    /\ IF attempt + 1 \in AttemptRange(Retries)
       THEN /\ attempt' = attempt + 1
            /\ oracle_reqs' = oracle_reqs + 1
            /\ lastCall' = Call("ORACLE", AIPIPE_URL, NoPayload, iter)
            /\ pc' = "llm"
            /\ UNCHANGED <<reason, outcome>>
       ELSE /\ Leave(OnOracleFailed, "llm failed")
            /\ UNCHANGED <<attempt, oracle_reqs, lastCall>>
    /\ UNCHANGED <<http_status, data, overall_deadline, url, last_result, iter, prev_url,
                   pageVars, oracle_result, lastGet, post_json>>
    /\ UNCHANGED <<last_body, sess>>

\* lines 280-311: the POST completes; the response decides whether the chain
\* goes on
PostStep(ok, resp, d) ==
    /\ pc = "post"
    /\ now' = now + d
    /\ IF ~ok
       THEN /\ lastCall' = Completed("failed")
            /\ Leave(OnPostFailed, "post failed")
            /\ UNCHANGED <<url, prev_url, last_result, post_json>>
       ELSE /\ lastCall' = Completed("ok")
            /\ post_json' = resp
            /\ IF resp.kind = "text"
               THEN /\ last_result' = FinalResult(Strip(resp.text))
                    /\ Leave("done", "final text")
                    /\ UNCHANGED <<url, prev_url>>
               ELSE /\ last_result' = JsonResult(resp)
                    /\ LET next_url == NextUrl(resp)
                       IN  IF next_url = None
                           THEN Leave("done", "no next url") /\ UNCHANGED <<url, prev_url>>
                           ELSE IF IsCycle(next_url, url)
                           THEN Leave("done", "cycle") /\ UNCHANGED <<url, prev_url>>
                           ELSE /\ url' = next_url
                                /\ prev_url' = url
                                /\ pc' = "loop"
                                /\ UNCHANGED <<reason, outcome>>
    /\ UNCHANGED <<http_status, data, overall_deadline, iter, pageVars, oracleVars, lastGet>>
    /\ UNCHANGED <<last_body, sess>>

\* a server that chains at most MaxIter pages
PostReturn(ok, resp, d) ==
    /\ iter < MaxIter \/ ~HasTruthyUrl(resp)
    /\ PostStep(ok, resp, d)

----------------------------------------------------------------------------

\* the single-session specification leaves the concurrent tasks alone
NoSessions == <<>>

Init ==
    /\ pc = "idle"
    /\ http_status = 0
    /\ data = NoData
    /\ now = 0
    /\ overall_deadline = 0
    /\ url = EmptyStr
    /\ last_result = NoResult
    /\ html = EmptyDoc
    /\ page_to_parse = EmptyDoc
    /\ question_text = ""
    /\ submit_url = None
    /\ attempt = 0
    /\ iter = 0
    /\ lastCall = NoCall
    /\ lastGet = None
    /\ prev_url = None
    /\ oracle_reqs = 0
    /\ oracle_result = NoOracleResult
    /\ post_json = NoResp
    /\ reason = ""
    /\ outcome = ""
    /\ last_body = NoBody
    /\ sess = NoSessions

Next ==
    \/ \E body \in Bodies : receive_request(body)
    \/ Start
    \/ IterBegin
    \/ \E ok \in BOOLEAN, page \in Pages, d \in GetDurations : GetReturn(ok, page, d)
    \/ \E resp \in OracleResponses, d \in OracleDurations : OracleReturn(resp, d)
    \/ Backoff
    \/ \E ok \in BOOLEAN, resp \in SubmitResponses, d \in PostDurations :
           PostReturn(ok, resp, d)

Spec == Init /\ [][Next]_vars

----------------------------------------------------------------------------
(* Several background tasks at once.  Each accepted request is handed to   *)
(* its own process_request task; the event loop interleaves the tasks at   *)
(* their awaits.  A task is a record of process_request's local variables  *)
(* and of the calls it has issued and not yet awaited to completion.       *)

Sessions == {"t1", "t2"}

Task(p, d) ==
    [pc |-> p, data |-> d, url |-> EmptyStr, overall_deadline |-> 0,
     last_result |-> NoResult, page_to_parse |-> EmptyDoc, question_text |-> "",
     submit_url |-> None, attempt |-> 0, iter |-> 0, calls |-> {}, reason |-> ""]

\* an outstanding call
Out(kind, target, payload) == [kind |-> kind, target |-> target, payload |-> payload]

Await_detached(calls, kind) == calls
\* await client.get / http_client.post / client.post (lines 238, 77, 280):
\* the task goes on only when the call it issued has completed
Await(calls, kind) == {c \in calls : c.kind # kind}

\* what the servers do in the concurrent specification
MultiBodies ==
    {Body(TRUE, TRUE, sec, U1, e) : sec \in {SECRET_KEY, "wrong"}, e \in {"a@x", "b@y"}}
MultiPages == {P_question, P_nosubmit}
MultiOracleResponses ==
    {[kind |-> "error", content |-> ""], [kind |-> "content", content |-> T_obj]}
MultiSubmitResponses == {R_text, R_next(U2)}

singleVars == <<pc, data, overall_deadline, url, last_result, html, page_to_parse,
                question_text, submit_url, attempt, iter, lastCall, lastGet, prev_url,
                oracle_reqs, oracle_result, post_json, reason, outcome>>

\* lines 322-342, for the task slot t the dispatcher uses
MReceive(t, body) ==
    /\ sess[t].pc = "idle"
    /\ last_body' = body
    /\ http_status' = Gate(body)
    /\ IF Gate(body) = 200
       THEN sess' = [sess EXCEPT ![t] = Task("accepted",
                         [url |-> body.url, email |-> body.email, secret |-> body.secret])]
       ELSE UNCHANGED sess
    /\ UNCHANGED <<now, singleVars>>

\* lines 216-229
MStart(t) ==
    LET me == sess[t]
    IN  /\ me.pc = "accepted"
        /\ IF me.data.url = NotAStr
           THEN sess' = [sess EXCEPT ![t] = [me EXCEPT !.pc = "done",
                                                       !.reason = "unexpected error"]]
           ELSE IF me.data.url = EmptyStr \/ ~StartsWithHttp(me.data.url)
           THEN sess' = [sess EXCEPT ![t] = [me EXCEPT !.pc = "done",
                                                       !.reason = "invalid url"]]
           ELSE sess' = [sess EXCEPT ![t] = [me EXCEPT !.pc = "loop",
                                                       !.overall_deadline = now + DeadlineSecs,
                                                       !.url = me.data.url,
                                                       !.last_result = NoResult]]
        /\ UNCHANGED <<now, http_status, last_body, singleVars>>

\* lines 232-238
MIterBegin(t) ==
    LET me == sess[t]
    IN  /\ me.pc = "loop"
        /\ IF DeadlineExceeded(now, me.overall_deadline)
           THEN sess' = [sess EXCEPT ![t] = [me EXCEPT !.pc = "done", !.reason = "deadline",
                                                       !.iter = me.iter + 1]]
           ELSE IF ~StartsWithHttp(me.url)
           THEN sess' = [sess EXCEPT ![t] = [me EXCEPT !.pc = OnGetFailed,
                                                       !.reason = "get failed",
                                                       !.iter = me.iter + 1]]
           ELSE sess' = [sess EXCEPT ![t] =
                           [me EXCEPT !.pc = "get", !.iter = me.iter + 1,
                                      !.calls = me.calls \cup {Out("GET", me.url, NoPayload)}]]
        /\ UNCHANGED <<now, http_status, last_body, singleVars>>

\* lines 238-266
MGetReturn(t, ok, page) ==
    LET me == sess[t]
        done == Await(me.calls, "GET")
        ptp == EffectivePage(page)
        q == extract_question_text(ptp)
        s == find_submit_url_in_html(ptp, me.url)
    IN  /\ me.pc = "get"
        /\ IF ~ok
           THEN sess' = [sess EXCEPT ![t] = [me EXCEPT !.pc = OnGetFailed, !.calls = done,
                                                       !.reason = "get failed"]]
           ELSE IF NoQuestion(q)
           THEN sess' = [sess EXCEPT ![t] = [me EXCEPT !.pc = "done", !.calls = done,
                                                       !.page_to_parse = ptp,
                                                       !.question_text = q,
                                                       !.reason = "no question"]]
           ELSE IF NoSubmitUrl(s)
           THEN sess' = [sess EXCEPT ![t] = [me EXCEPT !.pc = "done", !.calls = done,
                                                       !.page_to_parse = ptp,
                                                       !.question_text = q,
                                                       !.submit_url = s,
                                                       !.reason = "no submit"]]
           ELSE sess' = [sess EXCEPT ![t] =
                           [me EXCEPT !.pc = "llm", !.page_to_parse = ptp,
                                      !.question_text = q, !.submit_url = s, !.attempt = 1,
                                      !.calls = done \cup {Out("ORACLE", AIPIPE_URL, NoPayload)}]]
        /\ UNCHANGED <<now, http_status, last_body, singleVars>>

\* lines 77-126 and 266-280
MOracleReturn(t, resp) ==
    LET me == sess[t]
        done == Await(me.calls, "ORACLE")
        r == Attempt(resp)
    IN  /\ me.pc = "llm"
        /\ IF r.ok
           THEN sess' = [sess EXCEPT ![t] =
                           [me EXCEPT !.pc = "post",
                                      !.calls = done \cup
                                          {Out("POST", me.submit_url,
                                               Payload(me.data.email, me.data.secret,
                                                       me.url, r.value))}]]
           ELSE IF ShouldSleep(me.attempt, Retries)
           THEN sess' = [sess EXCEPT ![t] = [me EXCEPT !.pc = "sleep", !.calls = done]]
           ELSE sess' = [sess EXCEPT ![t] = [me EXCEPT !.pc = OnOracleFailed, !.calls = done,
                                                       !.reason = "llm failed"]]
        /\ UNCHANGED <<now, http_status, last_body, singleVars>>

\* lines 124 and 75-77
MBackoff(t) ==
    LET me == sess[t]
    IN  /\ me.pc = "sleep"
        /\ IF me.attempt + 1 \in AttemptRange(Retries)
           THEN sess' = [sess EXCEPT ![t] =
                           [me EXCEPT !.pc = "llm", !.attempt = me.attempt + 1,
                                      !.calls = me.calls \cup
                                          {Out("ORACLE", AIPIPE_URL, NoPayload)}]]
           ELSE sess' = [sess EXCEPT ![t] = [me EXCEPT !.pc = OnOracleFailed,
                                                       !.reason = "llm failed"]]
        /\ UNCHANGED <<now, http_status, last_body, singleVars>>

\* lines 280-311
MPostReturn(t, ok, resp) ==
    LET me == sess[t]
        done == Await(me.calls, "POST")
        next_url == NextUrl(resp)
    IN  /\ me.pc = "post"
        /\ IF ~ok
           THEN sess' = [sess EXCEPT ![t] = [me EXCEPT !.pc = OnPostFailed, !.calls = done,
                                                       !.reason = "post failed"]]
           ELSE IF resp.kind = "text"
           THEN sess' = [sess EXCEPT ![t] =
                           [me EXCEPT !.pc = "done", !.calls = done, !.reason = "final text",
                                      !.last_result = FinalResult(Strip(resp.text))]]
           ELSE IF next_url = None
           THEN sess' = [sess EXCEPT ![t] =
                           [me EXCEPT !.pc = "done", !.calls = done, !.reason = "no next url",
                                      !.last_result = JsonResult(resp)]]
           ELSE IF IsCycle(next_url, me.url)
           THEN sess' = [sess EXCEPT ![t] =
                           [me EXCEPT !.pc = "done", !.calls = done, !.reason = "cycle",
                                      !.last_result = JsonResult(resp)]]
           ELSE sess' = [sess EXCEPT ![t] =
                           [me EXCEPT !.pc = "loop", !.calls = done, !.url = next_url,
                                      !.last_result = JsonResult(resp)]]
        /\ UNCHANGED <<now, http_status, last_body, singleVars>>

\* time passes while some task waits for a call or sleeps
MTick ==
    /\ \E t \in Sessions : sess[t].pc \in {"get", "llm", "sleep", "post"}
    /\ now < DeadlineSecs + ClientTimeout
    /\ now' = now + ClientTimeout
    /\ UNCHANGED <<http_status, last_body, sess, singleVars>>

MultiInit ==
    /\ Init!1 /\ Init!2 /\ Init!3 /\ Init!4 /\ Init!5 /\ Init!6 /\ Init!7 /\ Init!8
    /\ Init!9 /\ Init!10 /\ Init!11 /\ Init!12 /\ Init!13 /\ Init!14 /\ Init!15
    /\ Init!16 /\ Init!17 /\ Init!18 /\ Init!19 /\ Init!20 /\ Init!21 /\ Init!22
    /\ sess = [t \in Sessions |-> Task("idle", NoData)]

MultiNext ==
    \/ \E t \in Sessions, body \in MultiBodies : MReceive(t, body)
    \/ \E t \in Sessions : MStart(t)
    \/ \E t \in Sessions : MIterBegin(t)
    \/ \E t \in Sessions, ok \in BOOLEAN, page \in MultiPages : MGetReturn(t, ok, page)
    \/ \E t \in Sessions, resp \in MultiOracleResponses : MOracleReturn(t, resp)
    \/ \E t \in Sessions : MBackoff(t)
    \/ \E t \in Sessions, ok \in BOOLEAN, resp \in MultiSubmitResponses :
           MPostReturn(t, ok, resp)
    \/ MTick

SpecMulti == MultiInit /\ [][MultiNext]_vars

----------------------------------------------------------------------------
(* The page helpers on their own: a body and a base URL are drawn, then    *)
(* the decoder, the extractor and the resolver are applied as lines        *)
(* 243-259 apply them.                                                     *)

MaxItems == 2               \* URL-like pieces in a drawn body

SubmitOther == <<"http://h", "/submit">>
BaseAB == <<"https://h", "/a", "/b">>
PureBases == {U1, BaseAB, <<"http://h", "/q1">>}

ItemPool ==
    {Item("abs", SubmitAbs), Item("abs", U2), Item("json", U2),
     Item("json", <<"/submit", "?x=1">>), Item("json", <<"/a">>),
     Item("json", <<"next">>), Item("json", SubmitOther), Item("frag", <<"/submit">>)}
ItemSeqs == UNION {[1..n -> ItemPool] : n \in 0..MaxItems}

\* bodies that vary the elements and the atob payload, and bodies that vary
\* the URL-like pieces
PureDocs ==
    {Doc(a, r, p, b, "raw text", NoItems) :
        a \in {Absent, "a", "!!!!", "PHByZSBpZD0i"},
        r \in {Absent, "", "R"}, p \in {Absent, "", "P"}, b \in {Absent, "", "B"}}
    \cup {Doc(Absent, Absent, Absent, "B", "raw text", items) : items \in ItemSeqs}
    \cup {EmptyDoc}

PureInit ==
    /\ Init!2 /\ Init!3 /\ Init!4 /\ Init!5 /\ Init!7 /\ Init!9 /\ Init!10
    /\ Init!11 /\ Init!12 /\ Init!13 /\ Init!14 /\ Init!15 /\ Init!16 /\ Init!17
    /\ Init!18 /\ Init!19 /\ Init!20 /\ Init!21 /\ Init!22 /\ Init!23
    /\ pc = "input"
    /\ html \in PureDocs
    /\ url \in PureBases

pureFixed == <<http_status, data, now, overall_deadline, url, last_result, html, attempt,
               iter, lastCall, lastGet, prev_url, oracle_reqs, oracle_result, post_json,
               reason, outcome, last_body, sess>>

\* lines 243-250
PDecode ==
    /\ pc = "input"
    /\ page_to_parse' = EffectivePage(html)
    /\ pc' = "decoded"
    /\ UNCHANGED <<question_text, submit_url, pureFixed>>

\* line 253
PExtract ==
    /\ pc = "decoded"
    /\ question_text' = extract_question_text(page_to_parse)
    /\ pc' = "extracted"
    /\ UNCHANGED <<page_to_parse, submit_url, pureFixed>>

\* line 259
PResolve ==
    /\ pc = "extracted"
    /\ submit_url' = find_submit_url_in_html(page_to_parse, url)
    /\ pc' = "resolved"
    /\ UNCHANGED <<page_to_parse, question_text, pureFixed>>

PureNext == PDecode \/ PExtract \/ PResolve

SpecPure == PureInit /\ [][PureNext]_vars

----------------------------------------------------------------------------
(* A session against a server that may chain pages for ever: every call    *)
(* takes some time, at least MinDuration and at most its timeout, and the  *)
(* event loop keeps running the task.                                      *)

MinDuration == 10

LiveGetDurations == {MinDuration, ClientTimeout}
LiveOracleDurations == {MinDuration, OracleTimeout}
LivePostDurations == {MinDuration, ClientTimeout}

LiveBodies == {Body(TRUE, TRUE, sec, U1, "a@x") : sec \in {SECRET_KEY, "wrong"}}
LivePages == {P_question, P_nosubmit}
LiveOracleResponses ==
    {[kind |-> "error", content |-> ""], [kind |-> "content", content |-> T_obj]}
LiveSubmitResponses == {R_text, R_next(U1), R_next(U2)}

\* the model's clock stops here; a session ends well before
ClockCap == 2 * (DeadlineSecs + IterationBudget)

LiveIterBegin ==
    /\ now <= ClockCap
    /\ IterBegin

LiveNext ==
    \/ \E body \in LiveBodies : receive_request(body)
    \/ Start
    \/ LiveIterBegin
    \/ \E ok \in BOOLEAN, page \in LivePages, d \in LiveGetDurations : GetReturn(ok, page, d)
    \/ \E resp \in LiveOracleResponses, d \in LiveOracleDurations : OracleReturn(resp, d)
    \/ Backoff
    \/ \E ok \in BOOLEAN, resp \in LiveSubmitResponses, d \in LivePostDurations :
           PostStep(ok, resp, d)

\* each awaited call returns or times out, so the task always takes its next step
SpecLive == Init /\ [][LiveNext]_vars /\ WF_vars(LiveNext)

----------------------------------------------------------------------------
(* Properties *)

\* the last network call is a completed GET of this iteration's page
GotPage == lastCall.kind = "GET" /\ lastCall.status = "ok"
\* the last network call is a POST that was answered
Answered == lastCall.kind = "POST" /\ lastCall.status = "ok"

\* C1 as stated: whenever the question extracted from the effective page is
\* empty and the resolver returns a URL for that page, the session does not
\* end there (it goes on to POST a placeholder answer).
C1_EntryPageSubmits ==
    (/\ GotPage
     /\ extract_question_text(page_to_parse) = ""
     /\ find_submit_url_in_html(page_to_parse, lastGet) # None)
    => pc # "done"

\* C1 amended: an empty extracted question ends the session at that point,
\* whether or not a submit URL would resolve: no oracle request and no POST
\* is ever in flight for a page whose question is empty.
C1_EmptyQuestionStops ==
    /\ pc \in {"llm", "sleep", "post"} => extract_question_text(page_to_parse) # ""
    /\ (GotPage /\ extract_question_text(page_to_parse) = "")
           => (pc = "done" /\ reason = "no question")

C1_Witness ==
    /\ pc = "done" /\ reason = "no question" /\ GotPage
    /\ find_submit_url_in_html(page_to_parse, lastGet) # None

\* C2: a submission response whose non-empty url equals the URL just fetched
\* and answered ends the session with no further GET, and url never equals
\* the value it had before its last assignment.
C2_CycleGuard ==
    /\ prev_url # None => url # prev_url
    /\ (Answered /\ HasTruthyUrl(post_json) /\ post_json.url = lastGet)
           => (pc = "done" /\ reason = "cycle")

C2_Witness ==
    /\ pc = "done" /\ reason = "cycle" /\ prev_url # None
    /\ Answered /\ post_json.url = lastGet

\* C3: a POST goes only to the URL the resolver returned for the page fetched
\* by the GET before it, and when the resolver returns nothing the session
\* ends on that GET, without a POST.
C3_PostOnlyToResolved ==
    /\ lastCall.kind = "POST" =>
           /\ lastCall.target # None
           /\ page_to_parse = EffectivePage(html)
           /\ lastCall.target = find_submit_url_in_html(page_to_parse, lastGet)
    /\ reason = "no submit" =>
           /\ pc = "done" /\ GotPage
           /\ find_submit_url_in_html(page_to_parse, lastGet) = None

C3_Witness ==
    /\ lastCall.kind = "POST" /\ lastCall.iter = 2
    /\ lastCall.target = <<"https://h", "/next">>

\* C4: the payload of every POST carries the URL of the most recent GET and
\* the email and secret of the accepted job.
C4_PayloadCarriesCurrent ==
    lastCall.kind = "POST" =>
        /\ lastCall.payload.url = lastGet
        /\ lastCall.payload.email = data.email
        /\ lastCall.payload.secret = data.secret

C4_Witness ==
    /\ lastCall.kind = "POST" /\ lastCall.iter = 2
    /\ lastCall.payload.url = U2 /\ lastCall.payload.url # data.url
    /\ lastCall.payload.email = "b@y"

\* C5: the deadline, once set, never changes, and an iteration that starts
\* after the deadline ends the session without any network call.
C5_Deadline ==
    [][/\ pc \notin {"idle", "accepted"} => overall_deadline' = overall_deadline
       /\ (pc = "loop" /\ now > overall_deadline) => (pc' = "done" /\ lastCall' = lastCall)
      ]_vars

C5_Witness ==
    /\ pc = "done" /\ reason = "deadline" /\ now > overall_deadline
    /\ Answered

\* whether the chain goes on after a JSON submission response
Continues(resp) ==
    resp.shape = "dict" /\ resp.hasurl /\ resp.url # EmptyStr /\ resp.url # lastGet

\* C6: after a JSON submission response the session goes on exactly when the
\* response is an object with a non-empty url other than the current one; then
\* url is that value and the next network call is a GET of it; otherwise the
\* session ends with no further call.
C6_FollowNextUrl ==
    /\ [](Answered /\ post_json.kind = "json" =>
            IF Continues(post_json)
            THEN url = post_json.url /\ reason \in {"", "deadline", "get failed"}
            ELSE pc = "done" /\ reason \in {"no next url", "cycle"})
    /\ [][(lastCall.kind = "POST" /\ lastCall'.n # lastCall.n) =>
            (lastCall'.kind = "GET" /\ lastCall'.target = post_json.url)]_vars

C6_Witness ==
    /\ lastCall.kind = "GET" /\ lastCall.iter = 2 /\ lastCall.target = U2
    /\ post_json.url = U2 /\ url = U2

\* C7: a submission response that is not JSON ends the session as a completion
\* and last_result is the final marker with the response text.
C7_NonJsonIsFinal ==
    (Answered /\ post_json.kind = "text") =>
        /\ pc = "done" /\ reason = "final text" /\ outcome = "returned"
        /\ last_result.isset /\ last_result.final
        /\ last_result.raw_response = Strip(post_json.text)

C7_Witness ==
    /\ pc = "done" /\ reason = "final text"
    /\ last_result = FinalResult("Quiz complete!")

\* C8 as stated: an attempt whose content, trimmed, is a bare integer, float
\* or boolean literal returns that value.
C8_BareScalarAccepted ==
    (oracle_result.resp.kind = "content"
     /\ Strip(oracle_result.resp.content) \in {"42", "3.5", "true"})
    => /\ oracle_result.r.ok
       /\ oracle_result.r.value.v = Strip(oracle_result.resp.content)

\* C9: one oracle call issues at most retries + 1 requests, none after the
\* attempt that yields an answer, and exactly retries + 1 when it fails.
C9_RetryBudget ==
    /\ oracle_reqs <= Retries + 1
    /\ oracle_reqs = attempt
    /\ oracle_result.r.ok => lastCall.kind # "ORACLE"
    /\ reason = "llm failed" => (oracle_reqs = Retries + 1 /\ ~oracle_result.r.ok)

C9_Witness ==
    /\ pc = "done" /\ reason = "llm failed" /\ oracle_reqs = Retries + 1
    /\ lastCall.kind = "ORACLE" /\ lastCall.status = "failed"

Fatal == {"get failed", "no submit", "llm failed", "post failed"}

\* C10: a fatal condition ends the session at the call that failed: no call
\* follows it, an oracle failure is not followed by a POST, and
\* process_request returns normally.
C10_FatalStops ==
    /\ reason \in Fatal => pc = "done"
    /\ pc = "done" => outcome = "returned"
    /\ reason = "get failed" =>
           \/ lastCall.kind = "GET" /\ lastCall.status = "failed"
           \/ Answered /\ ~StartsWithHttp(url)
    /\ reason = "no submit" => GotPage
    /\ reason = "llm failed" => (lastCall.kind = "ORACLE" /\ lastCall.status = "failed")
    /\ reason = "post failed" => (lastCall.kind = "POST" /\ lastCall.status = "failed")

C10_Witness ==
    /\ pc = "done" /\ reason = "llm failed" /\ outcome = "returned"
    /\ lastCall.iter = 2


\* C11: with several sessions interleaved, each session has at most one
\* outstanding network call, exactly while it waits for one; the payload it
\* sends carries its own job's email and secret and its own url; and a step
\* of one session leaves every other session's variables as they were.
C11_Sequential ==
    /\ [](\A t \in Sessions :
            /\ Cardinality(sess[t].calls) <= 1
            /\ sess[t].calls # {} <=> sess[t].pc \in {"get", "llm", "post"}
            /\ \A c \in sess[t].calls :
                   c.kind = "POST" =>
                       /\ c.payload.email = sess[t].data.email
                       /\ c.payload.secret = sess[t].data.secret
                       /\ c.payload.url = sess[t].url)
    /\ [][\A t, u \in Sessions :
            (t # u /\ sess'[t] # sess[t]) => sess'[u] = sess[u]]_vars

C11_Witness ==
    /\ sess["t1"].pc = "post" /\ sess["t2"].pc = "llm"
    /\ sess["t1"].url = U2 /\ sess["t2"].url = U1
    /\ sess["t1"].data.email # sess["t2"].data.email
    /\ sess["t1"].overall_deadline # sess["t2"].overall_deadline


\* C12 as stated: a session that made a network call ends no later than the
\* deadline plus the timeout of one network call.
C12_OverrunOneCall ==
    (pc = "done" /\ lastCall.n >= 1) => now <= overall_deadline + ClientTimeout

\* C12 amended: the deadline is checked only when an iteration starts, so a
\* session ends no later than the deadline plus the budget of one whole
\* iteration (GET, every oracle attempt and backoff sleep, POST).
C12_OverrunOneIteration ==
    lastCall.n >= 1 => now <= overall_deadline + IterationBudget

C12_Witness ==
    /\ pc = "done" /\ lastCall.kind = "POST"
    /\ now = overall_deadline + IterationBudget
    /\ now > overall_deadline + ClientTimeout


\* the URL-like pieces of the page handed to the resolver
Items == page_to_parse.items
HasAbsSubmit == \E i \in DOMAIN Items : MatchAbsSubmit(Items[i])
FirstJson == First({i \in DOMAIN Items : Items[i].kind = "json"})

C14_RootRelative ==
    (pc = "resolved" /\ ~HasAbsSubmit /\ FirstJson # 0
     /\ StartsWithSlash(Items[FirstJson].val))
    => /\ submit_url = <<Head(url)>> \o Items[FirstJson].val
       /\ (url = BaseAB /\ Items[FirstJson].val = <<"/submit", "?x=1">>)
              => submit_url = <<"https://h", "/submit", "?x=1">>

C14_Witness ==
    /\ pc = "resolved" /\ url = BaseAB
    /\ Items = <<Item("json", <<"/submit", "?x=1">>)>>
    /\ submit_url = <<"https://h", "/submit", "?x=1">>

\* the text of an element that is in the document and not empty
HasText(t) == t # Absent /\ t # ""

\* C17 as stated: the extractor returns the text of the first candidate that
\* exists (id result, then pre, then body), and the raw input only when none
\* of the three exists.
C17_FirstExisting ==
    pc \in {"extracted", "resolved"} =>
        question_text =
            IF page_to_parse.result # Absent THEN page_to_parse.result
            ELSE IF page_to_parse.pre # Absent THEN page_to_parse.pre
            ELSE IF page_to_parse.body # Absent THEN page_to_parse.body
            ELSE page_to_parse.raw

\* C17 amended: an id-result or pre candidate is taken only when its text is
\* not empty; otherwise the body's text is returned if there is a body, empty
\* or not, and the trimmed raw input if there is none.
C17_FirstWithText ==
    pc \in {"extracted", "resolved"} =>
        LET d == page_to_parse
        IN  /\ HasText(d.result) => question_text = d.result
            /\ (~HasText(d.result) /\ HasText(d.pre)) => question_text = d.pre
            /\ (~HasText(d.result) /\ ~HasText(d.pre) /\ d.body # Absent)
                   => question_text = d.body
            /\ (~HasText(d.result) /\ ~HasText(d.pre) /\ d.body = Absent)
                   => question_text = d.raw

C17_Witness ==
    /\ pc = "extracted"
    /\ page_to_parse.result = "" /\ page_to_parse.pre = "P" /\ page_to_parse.body = "B"
    /\ question_text = "P"

\* the first url field holds a bare relative value and nothing in the body
\* is a /submit URL or fragment
BareUrlOnly ==
    /\ ~HasAbsSubmit /\ FirstJson # 0
    /\ ~StartsWithHttp(Items[FirstJson].val) /\ ~StartsWithSlash(Items[FirstJson].val)
    /\ \A i \in DOMAIN Items : ~MatchSubmitFrag(Items[i])

\* C18 as stated: a bare relative url value is no match for heuristic 2, so
\* with no /submit fragment in the body the resolver returns nothing.
C18_BareValueNoMatch ==
    (pc = "resolved" /\ BareUrlOnly) => submit_url = None

\* C18 amended: heuristic 2 matches any url field; a bare relative value is
\* prefixed with / and joined to the base's scheme and host, and the resolver
\* returns that URL (heuristic 3 is not reached).
C18_BareValueJoined ==
    (pc = "resolved" /\ ~HasAbsSubmit /\ FirstJson # 0
     /\ ~StartsWithHttp(Items[FirstJson].val) /\ ~StartsWithSlash(Items[FirstJson].val))
    => /\ submit_url # None
       /\ submit_url = <<Head(url), "/" \o Head(Items[FirstJson].val)>>
                       \o Tail(Items[FirstJson].val)

C18_Witness ==
    /\ pc = "resolved" /\ BareUrlOnly /\ url = BaseAB
    /\ Items = <<Item("json", <<"next">>)>>
    /\ submit_url = <<"https://h", "/next">>


\* the fields a request must carry to be dispatched
Accepts(b) ==
    /\ b.json /\ b.isdict
    /\ b.secret # Absent /\ b.secret = SECRET_KEY
    /\ b.url # EmptyStr /\ b.email # ""

\* C15: a session exists only for a request whose body is JSON with a secret
\* equal to the configured one and non-empty url and email; it runs on that
\* request's fields.  Any other request is answered with an error status and
\* starts nothing.
C15_AcceptanceGate ==
    /\ pc # "idle" =>
           /\ Accepts(last_body)
           /\ data = [url |-> last_body.url, email |-> last_body.email,
                      secret |-> last_body.secret]
           /\ http_status = 200
    /\ (pc = "idle" /\ last_body # NoBody) =>
           /\ ~Accepts(last_body)
           /\ http_status \in {400, 403, 500}
           /\ data = NoData /\ lastCall = NoCall

C15_Witness ==
    /\ pc = "get" /\ lastCall.kind = "GET"
    /\ last_body.secret = SECRET_KEY /\ last_body.url = U1 /\ last_body.email = "a@x"

\* the fetched body has an atob payload that decodes to some text
DecodesToText(h) ==
    /\ extract_base64_from_html(h) # Absent
    /\ decode_base64_to_html(extract_base64_from_html(h)).ok
    /\ decode_base64_to_html(extract_base64_from_html(h)).doc # EmptyDoc

\* C16: the page given to the extractor and the resolver is the decoded text
\* when the fetched body has an atob payload that decodes to non-empty text,
\* and the fetched body itself otherwise; with an undecodable or empty payload
\* the iteration goes on with the fetched body.
C16_EffectivePage ==
    /\ DecodesToText(html) =>
           page_to_parse = decode_base64_to_html(extract_base64_from_html(html)).doc
    /\ ~DecodesToText(html) => page_to_parse = html
    /\ pc \in {"llm", "sleep", "post"} =>
           /\ question_text = extract_question_text(page_to_parse)
           /\ submit_url = find_submit_url_in_html(page_to_parse, url)

C16_Witness ==
    /\ pc = "post" /\ html = P_emptyb64
    /\ page_to_parse = html /\ question_text = "Name a colour"

\* C19 as stated: when the session has ended, last_result is the most recent
\* submission response (marked final if it was not JSON, the parsed JSON
\* otherwise) and is empty only if no submission response was received.
C19_EmptyOnlyIfNone ==
    pc = "done" =>
        /\ post_json = NoResp => ~last_result.isset
        /\ post_json # NoResp =>
               /\ last_result.isset
               /\ IF post_json.kind = "text"
                  THEN last_result.final /\ last_result.raw_response = Strip(post_json.text)
                  ELSE ~last_result.final /\ last_result.json = post_json

\* C19 amended: when the session has ended, however it ended, last_result is
\* the value of the most recent submission response: the final record if it
\* was not JSON, the parsed JSON otherwise; it is None when no response was
\* received and also when the most recent one was the JSON value null.
C19_LastResult ==
    pc = "done" =>
        IF post_json = NoResp \/ post_json.shape = "null" THEN ~last_result.isset
        ELSE IF post_json.kind = "text"
        THEN /\ last_result.isset /\ last_result.final
             /\ last_result.raw_response = Strip(post_json.text)
        ELSE /\ last_result.isset /\ ~last_result.final
             /\ last_result.json = post_json

C19_Witness ==
    /\ pc = "done" /\ reason = "llm failed" /\ iter = 2
    /\ post_json = R_next(U2)
    /\ last_result.isset /\ last_result.json = R_next(U2)


\* C20: every accepted session ends, whatever the server does: a chain that
\* goes on for ever, or one that alternates between two URLs and so passes
\* the cycle guard, is stopped by the deadline check at the start of an
\* iteration.
C20_Terminates == (pc = "accepted") ~> (pc = "done")

\* the chain went A, B, A and named B again; the fourth iteration found the
\* deadline passed
C20_Witness ==
    /\ pc = "done" /\ reason = "deadline" /\ iter = 4
    /\ data.url = U1 /\ lastGet = U1 /\ prev_url = U1 /\ url = U2
    /\ now <= ClockCap

====
